---- MODULE Spec2Model ----
(***************************************************************************)
(* A model of the MLeM virtual machine (src/src/virtual_machine/mod.rs):   *)
(* the Machine state, the address read/write layer, the per-instruction    *)
(* semantics, execute_next, and the run / run_for loops.                   *)
(*                                                                         *)
(* Words are u64 in the source.  TLC's integers are 32 bit, so the word    *)
(* width is scaled to WordBits bits; every wrapping operation is taken     *)
(* modulo WordMod = 2^WordBits exactly where the source wraps modulo 2^64. *)
(* A Rust panic (index out of bounds, arithmetic overflow in a build with  *)
(* overflow checks) is the pseudo-outcome Panic: the call never returns.   *)
(***************************************************************************)
EXTENDS Integers, Sequences, FiniteSets, TLC

(* ------------------------------ bounds --------------------------------- *)
\* width of a machine word in the model (u64 in the source)
WordBits == 3
\* max_words handed to Machine::new by the host
MaxWords == 4
\* largest cycle cap a host passes to run_for
MaxCycles == 3
\* capacity, in words, of the writer bound to the machine
OutCap == 2
\* number of write_addr / load_memory calls the host makes on one machine
MaxHostWrites == 1

WordMod == 2 ^ WordBits
Word == 0 .. (WordMod - 1)
WordMax == WordMod - 1

(* --------------------------- instruction model ------------------------- *)
GPR == {"R0", "R1", "R2", "R3", "R4", "R5", "R6", "R7"}
Register == GPR \cup {"SP", "BP"}

RegAbs(r) == [kind |-> "RegAbs", r |-> r, w |-> 0]
MemAbs(w) == [kind |-> "MemAbs", r |-> "R0", w |-> w]
MemReg(r) == [kind |-> "MemReg", r |-> r, w |-> 0]
Literal(w) == [kind |-> "Literal", r |-> "R0", w |-> w]

\* operand slot of an instruction that takes fewer than two operands
NoAddr == Literal(0)

NoOp == [op |-> "NoOp", a |-> NoAddr, b |-> NoAddr]
Zero(a) == [op |-> "Zero", a |-> a, b |-> NoAddr]
Move(a, b) == [op |-> "Move", a |-> a, b |-> b]
Output(a) == [op |-> "Output", a |-> a, b |-> NoAddr]
Input(a) == [op |-> "Input", a |-> a, b |-> NoAddr]
Add(a, b) == [op |-> "Add", a |-> a, b |-> b]
Sub(a, b) == [op |-> "Sub", a |-> a, b |-> b]
Jump(a) == [op |-> "Jump", a |-> a, b |-> NoAddr]
JumpIfZero(a, b) == [op |-> "JumpIfZero", a |-> a, b |-> b]
JumpNotZero(a, b) == [op |-> "JumpNotZero", a |-> a, b |-> b]
Push(a) == [op |-> "Push", a |-> a, b |-> NoAddr]
Pop(a) == [op |-> "Pop", a |-> a, b |-> NoAddr]
Halt == [op |-> "Halt", a |-> NoAddr, b |-> NoAddr]
Illegal == [op |-> "Illegal", a |-> NoAddr, b |-> NoAddr]

(* ----------------------------- serialization --------------------------- *)
\* The serialized form of the instruction model, as #[derive(Serialize,
\* Deserialize)] lays it out (externally tagged) in the data items of the
\* encoding: a text string, an unsigned integer, an array, or a map of one
\* entry from a variant name to the variant's payload.
Text(str) == [t |-> "text", s |-> str, n |-> 0, items |-> << >>]
Uint(n) == [t |-> "uint", s |-> "", n |-> n, items |-> << >>]
Array(items) == [t |-> "array", s |-> "", n |-> 0, items |-> items]
Map1(key, payload) == [t |-> "map", s |-> key, n |-> 0, items |-> << payload >>]

\* nothing has been serialized
NotStored == [t |-> "none", s |-> "", n |-> 0, items |-> << >>]

UnitOps == {"NoOp", "Halt", "Illegal"}
OneOps == {"Zero", "Output", "Input", "Jump", "Push", "Pop"}
TwoOps == {"Move", "Add", "Sub", "JumpIfZero", "JumpNotZero"}

\* a serializer that writes MemReg under the variant name of RegAbs
serialize_address_shared_name(a) ==
    CASE a.kind = "RegAbs" -> Map1("RegAbs", Text(a.r))
      [] a.kind = "MemAbs" -> Map1("MemAbs", Uint(a.w))
      [] a.kind = "MemReg" -> Map1("RegAbs", Text(a.r))
      [] a.kind = "Literal" -> Map1("Literal", Uint(a.w))

\* Serialize for Address; a Register is a unit variant, written as its name
serialize_address(a) ==
    CASE a.kind = "RegAbs" -> Map1("RegAbs", Text(a.r))
      [] a.kind = "MemAbs" -> Map1("MemAbs", Uint(a.w))
      [] a.kind = "MemReg" -> Map1("MemReg", Text(a.r))
      [] a.kind = "Literal" -> Map1("Literal", Uint(a.w))

\* Serialize for Instruction
serialize_instruction(i) ==
    IF i.op \in UnitOps THEN Text(i.op)
    ELSE IF i.op \in OneOps THEN Map1(i.op, serialize_address(i.a))
    ELSE Map1(i.op, Array(<< serialize_address(i.a), serialize_address(i.b) >>))

\* serde_cbor::ser::to_vec_sd(&program)
to_vec_sd(program) == Array([k \in 1 .. Len(program) |-> serialize_instruction(program[k])])

\* Deserialize for Address: [ok |-> FALSE] is an Err
deserialize_address(c) ==
    IF c.t = "map" /\ c.s \in {"RegAbs", "MemReg"} /\ c.items[1].t = "text"
       /\ c.items[1].s \in Register
    THEN [ok |-> TRUE, v |-> [kind |-> c.s, r |-> c.items[1].s, w |-> 0]]
    ELSE IF c.t = "map" /\ c.s \in {"MemAbs", "Literal"} /\ c.items[1].t = "uint"
            /\ c.items[1].n \in Word
    THEN [ok |-> TRUE, v |-> [kind |-> c.s, r |-> "R0", w |-> c.items[1].n]]
    ELSE [ok |-> FALSE, v |-> NoAddr]

\* Deserialize for Instruction
deserialize_instruction(c) ==
    IF c.t = "text" /\ c.s \in UnitOps
    THEN [ok |-> TRUE, v |-> [op |-> c.s, a |-> NoAddr, b |-> NoAddr]]
    ELSE IF c.t = "map" /\ c.s \in OneOps
    THEN LET a == deserialize_address(c.items[1])
         IN  [ok |-> a.ok, v |-> [op |-> c.s, a |-> a.v, b |-> NoAddr]]
    ELSE IF c.t = "map" /\ c.s \in TwoOps /\ c.items[1].t = "array"
            /\ Len(c.items[1].items) = 2
    THEN LET a == deserialize_address(c.items[1].items[1])
             b == deserialize_address(c.items[1].items[2])
         IN  [ok |-> a.ok /\ b.ok, v |-> [op |-> c.s, a |-> a.v, b |-> b.v]]
    ELSE [ok |-> FALSE, v |-> Illegal]

\* serde_cbor::de::from_slice::<Program>(&serialized)
from_slice(c) ==
    IF c.t = "array" /\ \A k \in 1 .. Len(c.items) : deserialize_instruction(c.items[k]).ok
    THEN [ok |-> TRUE, v |-> [k \in 1 .. Len(c.items) |-> deserialize_instruction(c.items[k]).v]]
    ELSE [ok |-> FALSE, v |-> << >>]

(* -------------------------------- Outcome ------------------------------ *)
\* Outcome::Continue, Outcome::Halt, Outcome::Fault(message).  The message
\* is kept as the class of the fault.  Panic is not an Outcome of the
\* source: it marks a call that unwinds instead of returning.
Continue == [tag |-> "Continue", msg |-> ""]
OHalt == [tag |-> "Halt", msg |-> ""]
Fault(msg) == [tag |-> "Fault", msg |-> msg]
Panic(msg) == [tag |-> "Panic", msg |-> msg]

IsFault(o) == o.tag = "Fault"
IsPanic(o) == o.tag = "Panic"

(* ------------------------------ Machine state -------------------------- *)
\* Machine::new(max_words, input, output): input is the queue of words the
\* bound reader still holds, output the words the bound writer has taken.
\* out_grows tells what writer is bound: a growable buffer (the
\* Cursor<Vec<u8>> of execute), which takes every word, or a writer of fixed
\* capacity.
\* a constructor that leaves the program empty
new_empty_program(max_words, input) ==
    [max_words |-> max_words,
     registers |-> [i \in 0 .. 7 |-> 0],
     sp |-> (max_words - 1) % WordMod,
     bp |-> (max_words - 1) % WordMod,
     ip |-> 0,
     memory |-> << >>,
     program |-> << >>,
     input |-> input,
     output |-> << >>,
     out_grows |-> FALSE]

new(max_words, input) ==
    [max_words |-> max_words,
     registers |-> [i \in 0 .. 7 |-> 0],
     sp |-> (max_words - 1) % WordMod,
     bp |-> (max_words - 1) % WordMod,
     ip |-> 0,
     memory |-> << >>,
     program |-> << Illegal >>,
     input |-> input,
     output |-> << >>,
     out_grows |-> FALSE]

\* a load_program that leaves the instruction pointer where it was
load_program_keep_ip(m, p) == [m EXCEPT !.program = p]

load_program(m, p) == [m EXCEPT !.program = p, !.ip = 0]

load_memory(m, mem) == [m EXCEPT !.memory = mem]

get_memory(m) == m.memory

\* a next_instr that faults only once IP is past the index after the last
next_instr_late(m) ==
    LET m1 == [m EXCEPT !.ip = m.ip + 1]
    IN  IF m1.ip > Len(m1.program)
        THEN [m |-> m1, o |-> Fault("IP beyond program length")]
        ELSE [m |-> m1, o |-> Continue]

next_instr(m) ==
    LET m1 == [m EXCEPT !.ip = m.ip + 1]
    IN  IF m1.ip >= Len(m1.program)
        THEN [m |-> m1, o |-> Fault("IP beyond program length")]
        ELSE [m |-> m1, o |-> Continue]

GprIndex(r) ==
    CASE r = "R0" -> 0 [] r = "R1" -> 1 [] r = "R2" -> 2 [] r = "R3" -> 3
      [] r = "R4" -> 4 [] r = "R5" -> 5 [] r = "R6" -> 6 [] r = "R7" -> 7

read_register(m, r) ==
    CASE r = "SP" -> m.sp
      [] r = "BP" -> m.bp
      [] OTHER -> m.registers[GprIndex(r)]

\* a write_register in which R0 is also the instruction pointer
write_register_ip(m, r, v) ==
    CASE r = "SP" -> [m EXCEPT !.sp = v]
      [] r = "BP" -> [m EXCEPT !.bp = v]
      [] r = "R0" -> [m EXCEPT !.registers[0] = v, !.ip = v]
      [] OTHER -> [m EXCEPT !.registers[GprIndex(r)] = v]

write_register(m, r, v) ==
    CASE r = "SP" -> [m EXCEPT !.sp = v]
      [] r = "BP" -> [m EXCEPT !.bp = v]
      [] OTHER -> [m EXCEPT !.registers[GprIndex(r)] = v]

\* a resize that zeroes the cells the vector already had
resize_clearing(vec, n) == [i \in 1 .. n |-> 0]

\* Vec::resize(n, 0)
resize(vec, n) == [i \in 1 .. n |-> IF i <= Len(vec) THEN vec[i] ELSE 0]

\* self.memory[l] of the source is memory[l + 1] here (sequences start at 1);
\* indexing at l >= len panics.
write_memory(m, l, v) ==
    IF l > m.max_words
    THEN [m |-> m, o |-> Fault("Tried to write out of available memory")]
    ELSE LET mem1 == IF l > Len(m.memory) THEN resize(m.memory, l + 1)
                     ELSE m.memory
             m1 == [m EXCEPT !.memory = mem1]
         IN  IF l >= Len(mem1)
             THEN [m |-> m1, o |-> Panic("index out of bounds")]
             ELSE [m |-> [m1 EXCEPT !.memory[l + 1] = v], o |-> Continue]

\* A read returns a word, or panics: [panic |-> TRUE] carries no word.
ReadOk(v) == [panic |-> FALSE, v |-> v]
ReadPanic == [panic |-> TRUE, v |-> 0]

read_memory(m, l) ==
    IF l > m.max_words THEN ReadOk(0)
    ELSE IF l > Len(m.memory) THEN ReadOk(0)
    ELSE IF l >= Len(m.memory) THEN ReadPanic
    ELSE ReadOk(m.memory[l + 1])

write_addr(m, a, v) ==
    CASE a.kind = "Literal" -> [m |-> m, o |-> Fault("Tried to write to literal")]
      [] a.kind = "RegAbs" -> [m |-> write_register(m, a.r, v), o |-> Continue]
      [] a.kind = "MemAbs" -> write_memory(m, a.w, v)
      [] a.kind = "MemReg" -> write_memory(m, read_register(m, a.r), v)

\* a read_addr whose MemReg follows the pointer twice
read_addr_double(m, a) ==
    CASE a.kind = "Literal" -> ReadOk(a.w)
      [] a.kind = "RegAbs" -> ReadOk(read_register(m, a.r))
      [] a.kind = "MemAbs" -> read_memory(m, a.w)
      [] a.kind = "MemReg" ->
            LET ptr == read_memory(m, read_register(m, a.r))
            IN  IF ptr.panic THEN ReadPanic ELSE read_memory(m, ptr.v)

read_addr(m, a) ==
    CASE a.kind = "Literal" -> ReadOk(a.w)
      [] a.kind = "RegAbs" -> ReadOk(read_register(m, a.r))
      [] a.kind = "MemAbs" -> read_memory(m, a.w)
      [] a.kind = "MemReg" -> read_memory(m, read_register(m, a.r))

\* an absolute_jump that accepts the index one past the last instruction
absolute_jump_inclusive(m, l) ==
    IF l <= Len(m.program)
    THEN [m |-> [m EXCEPT !.ip = l], o |-> Continue]
    ELSE [m |-> m, o |-> Fault("Attempt to jump would overrun program")]

absolute_jump(m, l) ==
    IF l < Len(m.program)
    THEN [m |-> [m EXCEPT !.ip = l], o |-> Continue]
    ELSE [m |-> m, o |-> Fault("Attempt to jump would overrun program")]


(* ------------------------------- state --------------------------------- *)
VARIABLES
    mach,                   \* the Machine
    overflow_checks,        \* build profile: does integer overflow panic (debug) or wrap (release)
    pc,                     \* "idle", inside "run_for" / "run", or "panic" (a call unwound)
    instructions_remaining, \* run_for: local of the running call
    cycles,                 \* run_for: argument of the running / last call
    ret,                    \* what the last finished call returned
    last,                   \* the last operation performed on the machine
    resuming,               \* the current / last run or run_for call followed a run_for stopped by its cap
    steps,                  \* execute_next calls made by the current / last run_for call
    conts,                  \* ... of which returned Continue
    after_halt,             \* the last execute_next ran on a machine whose previous step had returned Halt
    host_writes,            \* write_addr / load_memory calls made by the host so far
    twin,                   \* a second Machine, built from the same arguments, and its run_for call
    stored                  \* the serialized program the host holds, if it serialized one

vars == << mach, overflow_checks, pc, instructions_remaining, cycles, ret, last, resuming,
           steps, conts, after_halt, host_writes, twin, stored >>

(* ------------------------- instruction semantics ----------------------- *)
\* the closures execute_next hands to ins_generic_scalar
wrapping_add == [va \in Word, vb \in Word |-> (va + vb) % WordMod]
\* a subtraction that stops at 0 instead of wrapping
saturating_sub == [va \in Word, vb \in Word |-> IF va >= vb THEN va - vb ELSE 0]

wrapping_sub == [va \in Word, vb \in Word |-> (va + WordMod - vb) % WordMod]

ins_no_op(m) == next_instr(m)

\* a Halt that steps past itself
ins_halt_advance(m) == [m |-> next_instr(m).m, o |-> OHalt]

ins_halt(m) == [m |-> m, o |-> OHalt]

ins_move(m, a, b) ==
    LET v == read_addr(m, a)
    IN  IF v.panic THEN [m |-> m, o |-> Panic("index out of bounds")]
        ELSE LET w == write_addr(m, b, v.v)
             IN  IF w.o = Continue THEN next_instr(w.m) ELSE w

ins_zero(m, a) ==
    LET w == write_addr(m, a, 0)
    IN  IF w.o = Continue THEN next_instr(w.m) ELSE w

\* an ins_output that stamps the word with a count of steps shared by all
\* the machines of the process
ins_output_stamped(m, a) ==
    LET v == read_addr(m, a)
    IN  IF v.panic THEN [m |-> m, o |-> Panic("index out of bounds")]
        ELSE IF m.out_grows \/ Len(m.output) < OutCap
        THEN next_instr([m EXCEPT !.output = Append(m.output, (v.v + steps + twin.n) % WordMod)])
        ELSE [m |-> m, o |-> Fault("Failed to write on output instruction")]

\* an ins_output that puts the new word in front of the words already written
ins_output_prepend(m, a) ==
    LET v == read_addr(m, a)
    IN  IF v.panic THEN [m |-> m, o |-> Panic("index out of bounds")]
        ELSE IF m.out_grows \/ Len(m.output) < OutCap
        THEN next_instr([m EXCEPT !.output = << v.v >> \o m.output])
        ELSE [m |-> m, o |-> Fault("Failed to write on output instruction")]

\* self.output.write_u64: a writer of fixed capacity takes OutCap words, then
\* fails; a growable buffer takes every word.
ins_output(m, a) ==
    LET v == read_addr(m, a)
    IN  IF v.panic THEN [m |-> m, o |-> Panic("index out of bounds")]
        ELSE IF m.out_grows \/ Len(m.output) < OutCap
        THEN next_instr([m EXCEPT !.output = Append(m.output, v.v)])
        ELSE [m |-> m, o |-> Fault("Failed to write on output instruction")]

\* an ins_input that reads the next word without taking it off the queue
ins_input_peek(m, a) ==
    IF m.input # << >>
    THEN LET w == write_addr(m, a, Head(m.input))
         IN  IF w.o = Continue THEN next_instr(w.m) ELSE w
    ELSE [m |-> m, o |-> Fault("Failed to read on input instruction")]

\* self.input.read_u64: fails when the bound reader is exhausted.
ins_input(m, a) ==
    IF m.input # << >>
    THEN LET w == write_addr([m EXCEPT !.input = Tail(m.input)], a, Head(m.input))
         IN  IF w.o = Continue THEN next_instr(w.m) ELSE w
    ELSE [m |-> m, o |-> Fault("Failed to read on input instruction")]

ins_generic_scalar(m, a, b, f) ==
    LET value_a == read_addr(m, a)
        value_b == read_addr(m, b)
    IN  IF value_a.panic \/ value_b.panic
        THEN [m |-> m, o |-> Panic("index out of bounds")]
        ELSE LET w == write_addr(m, a, f[value_a.v, value_b.v])
             IN  IF w.o = Continue THEN next_instr(w.m) ELSE w

ins_jump(m, a) ==
    LET addr == read_addr(m, a)
    IN  IF addr.panic THEN [m |-> m, o |-> Panic("index out of bounds")]
        ELSE absolute_jump(m, addr.v)

\* a conditional jump that validates its target before it tests the condition
ins_generic_jump_single_eager(m, a, b, f) ==
    LET value_a == read_addr(m, a)
        value_b == read_addr(m, b)
    IN  IF value_a.panic \/ value_b.panic
        THEN [m |-> m, o |-> Panic("index out of bounds")]
        ELSE IF value_a.v >= Len(m.program) \/ f[value_b.v]
        THEN absolute_jump(m, value_a.v)
        ELSE next_instr(m)

ins_generic_jump_single(m, a, b, f) ==
    LET value_a == read_addr(m, a)
        value_b == read_addr(m, b)
    IN  IF value_a.panic \/ value_b.panic
        THEN [m |-> m, o |-> Panic("index out of bounds")]
        ELSE IF f[value_b.v] THEN absolute_jump(m, value_a.v)
        ELSE next_instr(m)

\* an ins_push whose guard keeps one more word free below the stack
ins_push_guard_early(m, a) ==
    LET val == read_addr(m, a)
    IN  IF val.panic THEN [m |-> m, o |-> Panic("index out of bounds")]
        ELSE IF m.sp = 0 /\ overflow_checks
        THEN [m |-> m, o |-> Panic("attempt to subtract with overflow")]
        ELSE LET m1 == [m EXCEPT !.sp = (m.sp + WordMod - 1) % WordMod]
             IN  IF m1.sp <= 1
                 THEN [m |-> m1, o |-> Fault("Stack has overrun available memory!")]
                 ELSE LET w == write_memory(m1, m1.sp, val.v)
                      IN  IF IsPanic(w.o) THEN w ELSE next_instr(w.m)

\* self.sp -= 1 on sp = 0 panics with overflow checks and wraps without;
\* the Outcome of write_memory is dropped.
ins_push(m, a) ==
    LET val == read_addr(m, a)
    IN  IF val.panic THEN [m |-> m, o |-> Panic("index out of bounds")]
        ELSE IF m.sp = 0 /\ overflow_checks
        THEN [m |-> m, o |-> Panic("attempt to subtract with overflow")]
        ELSE LET m1 == [m EXCEPT !.sp = (m.sp + WordMod - 1) % WordMod]
             IN  IF m1.sp <= 0
                 THEN [m |-> m1, o |-> Fault("Stack has overrun available memory!")]
                 ELSE LET w == write_memory(m1, m1.sp, val.v)
                      IN  IF IsPanic(w.o) THEN w ELSE next_instr(w.m)

\* an ins_pop that, on an empty stack, moves BP to SP instead of SP to BP
ins_pop_rebase(m, a) ==
    LET empty == m.sp >= m.bp
        m1 == IF empty THEN [m EXCEPT !.bp = m.sp] ELSE m
        val == IF empty THEN ReadOk(0) ELSE read_memory(m, m.sp)
    IN  IF val.panic THEN [m |-> m1, o |-> Panic("index out of bounds")]
        ELSE IF m1.sp = WordMax /\ overflow_checks
        THEN [m |-> m1, o |-> Panic("attempt to add with overflow")]
        ELSE LET m2 == [m1 EXCEPT !.sp = (m1.sp + 1) % WordMod]
                 w == write_addr(m2, a, val.v)
             IN  IF w.o = Continue THEN next_instr(w.m) ELSE w

\* an ins_pop that raises SP before it reads the word at SP
ins_pop_incr_first(m, a) ==
    LET empty == m.sp >= m.bp
        m1 == IF empty THEN [m EXCEPT !.sp = m.bp] ELSE m
    IN  IF m1.sp = WordMax /\ overflow_checks
        THEN [m |-> m1, o |-> Panic("attempt to add with overflow")]
        ELSE LET m2 == [m1 EXCEPT !.sp = (m1.sp + 1) % WordMod]
                 val == IF empty THEN ReadOk(0) ELSE read_memory(m2, m2.sp)
             IN  IF val.panic THEN [m |-> m2, o |-> Panic("index out of bounds")]
                 ELSE LET w == write_addr(m2, a, val.v)
                      IN  IF w.o = Continue THEN next_instr(w.m) ELSE w

\* self.sp += 1 on sp = u64::MAX panics with overflow checks and wraps without.
ins_pop(m, a) ==
    LET empty == m.sp >= m.bp
        m1 == IF empty THEN [m EXCEPT !.sp = m.bp] ELSE m
        val == IF empty THEN ReadOk(0) ELSE read_memory(m, m.sp)
    IN  IF val.panic THEN [m |-> m1, o |-> Panic("index out of bounds")]
        ELSE IF m1.sp = WordMax /\ overflow_checks
        THEN [m |-> m1, o |-> Panic("attempt to add with overflow")]
        ELSE LET m2 == [m1 EXCEPT !.sp = (m1.sp + 1) % WordMod]
                 w == write_addr(m2, a, val.v)
             IN  IF w.o = Continue THEN next_instr(w.m) ELSE w

\* the closures execute_next hands to ins_generic_jump_single
IsZero == [v \in Word |-> v = 0]
NotZero == [v \in Word |-> v # 0]

\* the match of execute_next on an instruction already fetched
dispatch(m, i) ==
    CASE i.op = "NoOp" -> ins_no_op(m)
      [] i.op = "Zero" -> ins_zero(m, i.a)
      [] i.op = "Move" -> ins_move(m, i.a, i.b)
      [] i.op = "Output" -> ins_output(m, i.a)
      [] i.op = "Input" -> ins_input(m, i.a)
      [] i.op = "Add" -> ins_generic_scalar(m, i.a, i.b, wrapping_add)
      [] i.op = "Sub" -> ins_generic_scalar(m, i.a, i.b, wrapping_sub)
      [] i.op = "Jump" -> ins_jump(m, i.a)
      [] i.op = "JumpIfZero" -> ins_generic_jump_single(m, i.a, i.b, IsZero)
      [] i.op = "JumpNotZero" -> ins_generic_jump_single(m, i.a, i.b, NotZero)
      [] i.op = "Push" -> ins_push(m, i.a)
      [] i.op = "Pop" -> ins_pop(m, i.a)
      [] i.op = "Halt" -> ins_halt(m)
      [] i.op = "Illegal" -> [m |-> m, o |-> Fault("Illegal instruction encountered.")]

\* self.program[self.ip] panics when ip is not an index of the program.
FetchInBounds(m) == m.ip < Len(m.program)

execute_next(m) ==
    IF FetchInBounds(m) THEN dispatch(m, m.program[m.ip + 1])
    ELSE [m |-> m, o |-> Panic("index out of bounds")]


(* ------------------------------ run loops ------------------------------ *)
\* The while loop of run_for as a function of the machine: the machine it
\* leaves, the Outcome, and cycles - instructions_remaining.  A panic inside
\* execute_next ends the call without a return value (o is Panic).
\* a run_for that charges the step it stopped on
ChargedCycles_terminal(cyc, remaining) == cyc - remaining + 1

\* cycles - instructions_remaining: what run_for reports as executed
ChargedCycles(cyc, remaining) == cyc - remaining

\* a run_for whose loop executes one more instruction after the cap is used up
RECURSIVE run_for_loop_overrun(_, _, _)
run_for_loop_overrun(m, cyc, remaining) ==
    IF remaining > 0
    THEN LET r == execute_next(m)
         IN  IF r.o = Continue THEN run_for_loop_overrun(r.m, cyc, remaining - 1)
             ELSE [m |-> r.m, o |-> r.o, n |-> ChargedCycles(cyc, remaining)]
    ELSE LET r == execute_next(m)
         IN  [m |-> r.m, o |-> Continue, n |-> ChargedCycles(cyc, remaining)]

RECURSIVE run_for_loop(_, _, _)
run_for_loop(m, cyc, remaining) ==
    IF remaining > 0
    THEN LET r == execute_next(m)
         IN  IF r.o = Continue THEN run_for_loop(r.m, cyc, remaining - 1)
             ELSE [m |-> r.m, o |-> r.o, n |-> ChargedCycles(cyc, remaining)]
    ELSE [m |-> m, o |-> Continue, n |-> ChargedCycles(cyc, remaining)]

run_for(m, cyc) == run_for_loop(m, cyc, cyc)

(* ------------------------------- execute ------------------------------- *)
\* byteorder's write_u64::<BigEndian> and read_u64::<BigEndian>.  A word of
\* WordBits bits is WordBits bytes of one bit each here (8 bytes of 8 bits in
\* the source), most significant byte first.
write_u64(v) == [i \in 1 .. WordBits |-> (v \div (2 ^ (WordBits - i))) % 2]

RECURSIVE read_u64(_)
read_u64(bytes) ==
    IF bytes = << >> THEN 0
    ELSE 2 * read_u64(SubSeq(bytes, 1, Len(bytes) - 1)) + bytes[Len(bytes)]

\* for v in input { internal_input.write_u64::<BigEndian>(v) }
RECURSIVE write_words(_)
write_words(words) ==
    IF words = << >> THEN << >>
    ELSE write_u64(Head(words)) \o write_words(Tail(words))

\* while let Ok(v) = cursor.read_u64::<BigEndian>() { out.push(v) }: a read
\* fails when fewer bytes than a word are left
RECURSIVE read_words(_)
read_words(bytes) ==
    IF Len(bytes) < WordBits THEN << >>
    ELSE << read_u64(SubSeq(bytes, 1, WordBits)) >>
             \o read_words(SubSeq(bytes, WordBits + 1, Len(bytes)))

\* limit: Option<u64>
None == [some |-> FALSE, v |-> 0]
Some(v) == [some |-> TRUE, v |-> v]

\* limit.unwrap_or(u64::max_value())
actual_limit(limit) == IF limit.some THEN limit.v ELSE WordMax

\* the machine execute builds: a new machine over the encoded input and a
\* growable output buffer, with the program loaded.  The source passes 128
\* for max_words; the model passes MaxWords.
execute_machine(program, input) ==
    load_program([new(MaxWords, read_words(write_words(input))) EXCEPT !.out_grows = TRUE],
                 program)

\* execute(program, input, limit): (outcome, cycles, output); o is Panic when
\* the run unwound and nothing was returned
execute(program, input, limit) ==
    LET r == run_for(execute_machine(program, input), actual_limit(limit))
    IN  [o |-> r.o, n |-> r.n, output |-> read_words(write_words(r.m.output))]

(* --------------------------- what the host passes ---------------------- *)
R0 == "R0"
SP == "SP"
BP == "BP"

\* input queues a host binds to the machine
Inputs == { << >>, << 0 >>, << WordMax, 1 >> }

Programs ==
    { << >>,
      << NoOp, NoOp, NoOp, Halt >>,
      << NoOp, NoOp >>,
      << NoOp, Illegal >>,
      << Jump(Literal(0)) >>,
      << Jump(Literal(2)), Illegal, Halt >>,
      << Jump(Literal(1)) >>,
      << Jump(RegAbs(R0)), Halt >>,
      << Input(RegAbs(R0)), JumpIfZero(Literal(0), RegAbs(R0)), Halt >>,
      << Input(RegAbs(R0)), JumpNotZero(Literal(3), RegAbs(R0)), Halt >>,
      << Input(RegAbs(R0)), Output(RegAbs(R0)), Jump(Literal(0)) >>,
      << Input(RegAbs(R0)), Add(RegAbs(R0), RegAbs(R0)), Sub(RegAbs(R0), Literal(1)),
         Output(RegAbs(R0)), Halt >>,
      << Move(Literal(1), MemAbs(MaxWords)), Output(MemAbs(MaxWords)), Halt >>,
      << Zero(MemAbs(MaxWords + 1)), Halt >>,
      << Move(Literal(2), RegAbs(R0)), Move(Literal(WordMax), MemReg(R0)),
         Output(MemReg(R0)), Halt >>,
      << Move(Literal(2), MemAbs(1)), Jump(MemAbs(1)), Halt >>,
      << Output(MemAbs(0)), Halt >>,
      << Zero(MemAbs(0)), Halt >>,
      << Zero(Literal(0)), Halt >>,
      << Move(MemAbs(0), Literal(0)), Halt >>,
      << Push(Literal(1)), Jump(Literal(0)) >>,
      << Input(RegAbs(R0)), Push(RegAbs(R0)), Pop(RegAbs(R0)), Pop(RegAbs(R0)),
         Output(RegAbs(R0)), Halt >>,
      << Pop(Literal(0)), Halt >> }

Memories ==
    { << >>, << 1 >>, [i \in 1 .. MaxWords + 2 |-> i % WordMod] }

HostAddrs ==
    { RegAbs(R0), RegAbs(SP), MemAbs(0), MemAbs(1), MemAbs(MaxWords),
      MemAbs(MaxWords + 1), MemReg(R0), MemReg(SP), Literal(1) }

HostVals == {1, WordMax}

\* programs a host loads over an earlier program (besides loading the
\* current program again)
Reloads == { << >>, << NoOp, NoOp, NoOp, Halt >> }

\* the machine still holds the program Machine::new gave it
NeverLoaded(m) == m.program = << Illegal >>

(* ------------------------------- behaviour ----------------------------- *)
NoIns == [op |-> "none", a |-> NoAddr, b |-> NoAddr]

\* what a finished call handed back: the Outcome, run_for's cycle count n,
\* read_addr's word v.  An Outcome of Panic marks a call that unwound.
Ret(op, o, n, v) == [op |-> op, o |-> o, n |-> n, v |-> v]

\* the last operation performed on the machine, with the machine as it was
\* when the operation began: the instruction execute_next fetched, or the
\* address and word of a write_addr / read_addr call
Last(op, pre, ins, a, v, o) ==
    [op |-> op, pre |-> pre, ins |-> ins, a |-> a, v |-> v, o |-> o]

Fetched(m) == IF FetchInBounds(m) THEN m.program[m.ip + 1] ELSE NoIns

Stepped(m, o) == Last("execute_next", m, Fetched(m), NoAddr, 0, o)

\* run_for returned (Continue, n) after executing n >= 1 instructions
StoppedByCap(r) == r.op = "run_for" /\ r.o = Continue /\ r.n >= 1

AfterCall(o) == IF IsPanic(o) THEN "panic" ELSE "idle"

\* the step before this one, on the same program, returned Halt
HaltedBefore == last.op = "execute_next" /\ last.o = OHalt

\* the second machine m with the position pc of its run_for call, the
\* call's instructions_remaining, the execute_next steps n the call has made,
\* the Outcome o of the last of them, what the call returned, and the input
\* sequence the machine was constructed over
Twin(m, tpc, remaining, n, o, r, input) ==
    [m |-> m, pc |-> tpc, remaining |-> remaining, n |-> n, o |-> o, ret |-> r,
     input |-> input]

Init ==
    /\ \E input \in Inputs : mach = new(MaxWords, input)
    /\ overflow_checks \in BOOLEAN
    /\ pc = "idle"
    /\ instructions_remaining = 0
    /\ cycles = 0
    /\ ret = Ret("new", Continue, 0, 0)
    /\ last = Last("new", mach, NoIns, NoAddr, 0, Continue)
    /\ resuming = FALSE
    /\ steps = 0
    /\ conts = 0
    /\ after_halt = FALSE
    /\ host_writes = 0
    /\ twin = Twin(new(MaxWords, mach.input), "idle", 0, 0, Continue,
                   Ret("new", Continue, 0, 0), mach.input)
    /\ stored = NotStored

\* the locals of run / run_for are gone once another call is made
NoRun ==
    /\ instructions_remaining' = 0 /\ cycles' = 0 /\ steps' = 0 /\ conts' = 0
    /\ resuming' = FALSE

LoadProgram(p) ==
    /\ pc = "idle"
    /\ NeverLoaded(mach) \/ p \in Reloads \/ p = mach.program
    /\ mach' = load_program(mach, p)
    /\ ret' = Ret("load_program", Continue, 0, 0)
    /\ last' = Last("load_program", mach, NoIns, NoAddr, 0, Continue)
    /\ after_halt' = FALSE
    /\ NoRun
    /\ UNCHANGED << twin, stored, overflow_checks, pc, host_writes >>

LoadMemory(mem) ==
    /\ pc = "idle"
    /\ host_writes < MaxHostWrites
    /\ mach' = load_memory(mach, mem)
    /\ ret' = Ret("load_memory", Continue, 0, 0)
    /\ last' = Last("load_memory", mach, NoIns, NoAddr, 0, Continue)
    /\ after_halt' = FALSE
    /\ host_writes' = host_writes + 1
    /\ NoRun
    /\ UNCHANGED << twin, stored, overflow_checks, pc >>

WriteAddr(a, v) ==
    /\ pc = "idle"
    /\ host_writes < MaxHostWrites
    /\ LET w == write_addr(mach, a, v)
       IN  /\ mach' = w.m
           /\ ret' = Ret("write_addr", w.o, 0, 0)
           /\ last' = Last("write_addr", mach, NoIns, a, v, w.o)
           /\ pc' = AfterCall(w.o)
    /\ after_halt' = FALSE
    /\ host_writes' = host_writes + 1
    /\ NoRun
    /\ UNCHANGED << twin, stored, overflow_checks >>

ReadAddr(a) ==
    /\ pc = "idle"
    /\ LET v == read_addr(mach, a)
           o == IF v.panic THEN Panic("index out of bounds") ELSE Continue
       IN  /\ ret' = Ret("read_addr", o, 0, v.v)
           /\ last' = Last("read_addr", mach, NoIns, a, v.v, o)
           /\ pc' = AfterCall(o)
    /\ after_halt' = FALSE
    /\ NoRun
    /\ UNCHANGED << mach, twin, stored, overflow_checks, host_writes >>

ExecuteNext ==
    /\ pc = "idle"
    /\ LET r == execute_next(mach)
       IN  /\ mach' = r.m
           /\ ret' = Ret("execute_next", r.o, 0, 0)
           /\ last' = Stepped(mach, r.o)
           /\ pc' = AfterCall(r.o)
    /\ after_halt' = HaltedBefore
    /\ NoRun
    /\ UNCHANGED << twin, stored, overflow_checks, host_writes >>

\* run_for(n): entry, one turn of the while loop, and the return after it
RunForCall(n) ==
    /\ pc = "idle"
    /\ pc' = "run_for"
    /\ cycles' = n
    /\ instructions_remaining' = n
    /\ steps' = 0 /\ conts' = 0
    /\ resuming' = StoppedByCap(ret)
    /\ UNCHANGED << mach, twin, stored, overflow_checks, ret, last, after_halt, host_writes >>

RunForStep ==
    /\ pc = "run_for"
    /\ instructions_remaining > 0
    /\ LET r == execute_next(mach)
       IN  /\ mach' = r.m
           /\ last' = Stepped(mach, r.o)
           /\ steps' = steps + 1
           /\ after_halt' = HaltedBefore
           /\ IF r.o = Continue
              THEN /\ instructions_remaining' = instructions_remaining - 1
                   /\ conts' = conts + 1
                   /\ UNCHANGED << pc, ret >>
              ELSE /\ ret' = Ret("run_for", r.o,
                                 ChargedCycles(cycles, instructions_remaining), 0)
                   /\ pc' = AfterCall(r.o)
                   /\ UNCHANGED << instructions_remaining, conts >>
    /\ UNCHANGED << twin, stored, overflow_checks, cycles, resuming, host_writes >>

RunForReturn ==
    /\ pc = "run_for"
    /\ ~(instructions_remaining > 0)
    /\ ret' = Ret("run_for", Continue, ChargedCycles(cycles, instructions_remaining), 0)
    /\ pc' = "idle"
    /\ UNCHANGED << mach, twin, stored, overflow_checks, instructions_remaining, cycles, last,
                    steps, conts, resuming, after_halt, host_writes >>

\* run(): entry and one turn of its loop
RunCall ==
    /\ pc = "idle"
    /\ pc' = "run"
    /\ instructions_remaining' = 0 /\ cycles' = 0 /\ steps' = 0 /\ conts' = 0
    /\ resuming' = StoppedByCap(ret)
    /\ UNCHANGED << mach, twin, stored, overflow_checks, ret, last, after_halt, host_writes >>

RunStep ==
    /\ pc = "run"
    /\ LET r == execute_next(mach)
       IN  /\ mach' = r.m
           /\ last' = Stepped(mach, r.o)
           /\ after_halt' = HaltedBefore
           /\ IF r.o = Continue
              THEN UNCHANGED << pc, ret >>
              ELSE /\ ret' = Ret("run", r.o, 0, 0)
                   /\ pc' = AfterCall(r.o)
    /\ UNCHANGED << twin, stored, overflow_checks, instructions_remaining, cycles, steps, conts,
                    resuming, host_writes >>

\* A host that loads programs and runs them.
Next ==
    \/ \E p \in Programs : LoadProgram(p)
    \/ ExecuteNext
    \/ \E n \in 0 .. MaxCycles : RunForCall(n)
    \/ RunForStep
    \/ RunForReturn
    \/ RunCall
    \/ RunStep

Spec == Init /\ [][Next]_vars

\* A host that reads and writes the machine through its address layer, and
\* single-steps a short program over what it wrote.
HostPrograms ==
    { << >>,
      << Zero(MemAbs(0)), Output(MemAbs(1)), Halt >>,
      << Push(RegAbs(R0)), Pop(MemReg(R0)), Halt >> }

NextHost ==
    \/ \E p \in HostPrograms : LoadProgram(p)
    \/ \E mem \in Memories : LoadMemory(mem)
    \/ \E a \in HostAddrs, v \in HostVals : WriteAddr(a, v)
    \/ \E a \in HostAddrs : ReadAddr(a)
    \/ ExecuteNext

SpecHost == Init /\ [][NextHost]_vars

TypeOK ==
    /\ mach.sp \in Word /\ mach.bp \in Word
    /\ \A i \in 0 .. 7 : mach.registers[i] \in Word
    /\ \A i \in 1 .. Len(mach.memory) : mach.memory[i] \in Word
    /\ pc \in {"idle", "run_for", "run", "panic"}
    /\ after_halt \in BOOLEAN


(* ======================= run_for: cycle accounting ===================== *)
RunForReturned == pc = "idle" /\ ret.op = "run_for"

\* C1: when run_for(N) has returned (outcome, c), c is the number of
\* execute_next steps of that call that returned Continue; c <= N; c = N when
\* the outcome is Continue; and when the outcome is Halt or Fault the call
\* made exactly c + 1 steps, the last of which is not charged.
C1_CycleAccounting ==
    RunForReturned =>
        /\ ret.n = conts
        /\ ret.n <= cycles
        /\ (ret.o = Continue => ret.n = cycles /\ steps = conts)
        /\ (ret.o # Continue => steps = conts + 1 /\ last.o = ret.o)

\* a run_for that stopped early on Halt or Fault after at least one
\* Continue step
C1_Witness ==
    /\ RunForReturned
    /\ ret.o.tag \in {"Halt", "Fault"}
    /\ ret.n >= 1
    /\ ret.n < cycles

\* C2: if run_for(a) returns (Continue, a), then run_for(b) on the machine
\* it leaves ends in the same outcome and the same machine (IP, registers,
\* SP, BP, memory, input position, output) as run_for(a + b) from the
\* original state, and the two cycle counts add up to the single run's.
C2_Resumable ==
    \A a, b \in 0 .. MaxCycles :
        LET r1 == run_for(mach, a)
        IN  (r1.o = Continue /\ r1.n = a) =>
                LET r2 == run_for(r1.m, b)
                    r == run_for(mach, a + b)
                IN  /\ r2.o = r.o
                    /\ r2.m = r.m
                    /\ r1.n + r2.n = r.n

\* a run_for that was called right after a run_for stopped by its cap, and
\* that ran the program on to its Halt
C2_Witness ==
    /\ RunForReturned
    /\ resuming
    /\ ret.o = OHalt
    /\ ret.n >= 1

\* C3: a run_for(N) call makes at most N execute_next steps and ends by
\* returning, with N Continue steps done or with Halt or Fault; it never
\* ends any other way.
C3_RunForReturns ==
    /\ (pc = "run_for" => steps <= cycles)
    /\ ~(pc = "panic" /\ ret.op = "run_for")

\* What does hold of run_for: its loop keeps turning (nothing else runs in
\* the single-threaded machine), and then every call ends, by returning or
\* by a panic, within its cap.
FairSpec == Spec /\ WF_vars(RunForStep) /\ WF_vars(RunForReturn)

RunForEnds == (pc = "run_for") ~> (pc \in {"idle", "panic"})


(* ============================ memory layer ============================= *)
\* the memory index a MemAbs or MemReg address names in machine m
MemIndex(m, a) == IF a.kind = "MemAbs" THEN a.w ELSE read_register(m, a.r)

\* C4: after write_addr(MemAbs(i), v) with 0 <= i <= MAX_WORDS the write has
\* returned Continue and read_addr(MemAbs(i)) yields v.
C4_WriteReadRoundTrip ==
    (last.op = "write_addr" /\ last.a.kind = "MemAbs" /\ last.a.w <= mach.max_words) =>
        /\ last.o = Continue
        /\ read_addr(mach, last.a) = ReadOk(last.v)

\* C5: read_addr(MemAbs(l)) never fails; it yields 0 when l > MAX_WORDS or
\* l is at or beyond the physical memory size, and the stored word otherwise.
C5_ReadNeverFails ==
    (last.op = "read_addr" /\ last.a.kind = "MemAbs") =>
        /\ ~IsPanic(last.o)
        /\ last.v = IF last.a.w > mach.max_words \/ last.a.w >= Len(mach.memory)
                    THEN 0
                    ELSE mach.memory[last.a.w + 1]

\* C6: the physical memory length never exceeds MAX_WORDS (no load_memory
\* is involved: the hosts of Spec only load and run programs).
C6_MemoryWithinMaxWords == Len(get_memory(mach)) <= mach.max_words

\* C9: a write_addr through MemAbs(l), or MemReg(r) with r holding l,
\* returns Fault and leaves the memory as it was when l > MAX_WORDS, and
\* returns Continue when l <= MAX_WORDS.
C9_WriteBounds ==
    (last.op = "write_addr" /\ last.a.kind \in {"MemAbs", "MemReg"}) =>
        IF MemIndex(last.pre, last.a) > last.pre.max_words
        THEN IsFault(last.o) /\ mach.memory = last.pre.memory
        ELSE last.o = Continue

(* ================================ fetch ================================ *)
\* C7: every execute_next fetches program[IP] with IP < program length or
\* returns Fault.
C7_FetchInBounds ==
    last.op = "execute_next" => (FetchInBounds(last.pre) \/ IsFault(last.o))

(* ============================ literal writes =========================== *)
DestIsLiteral(i) ==
    \/ i.op \in {"Zero", "Input", "Add", "Sub", "Pop"} /\ i.a.kind = "Literal"
    \/ i.op = "Move" /\ i.b.kind = "Literal"

\* C8: write_addr(Literal(w), v) returns Fault, read_addr(Literal(w)) yields
\* w, and every executed instruction whose destination operand is a Literal
\* returns Fault.
C8_LiteralWriteFaults ==
    /\ \A w \in {0, 1, WordMax}, v \in {0, WordMax} :
          /\ IsFault(write_addr(mach, Literal(w), v).o)
          /\ read_addr(mach, Literal(w)) = ReadOk(w)
    /\ (last.op = "execute_next" /\ DestIsLiteral(last.ins)) => IsFault(last.o)

(* ================================ jumps ================================ *)
\* the instruction i, executed on machine m, is a jump that reads its
\* operands and is taken
JumpTaken(m, i) ==
    /\ i.op \in {"Jump", "JumpIfZero", "JumpNotZero"}
    /\ ~read_addr(m, i.a).panic
    /\ i.op = "JumpIfZero" => read_addr(m, i.b) = ReadOk(0)
    /\ i.op = "JumpNotZero" => (~read_addr(m, i.b).panic /\ read_addr(m, i.b).v # 0)

\* a taken jump i that took machine m to machine m2 with Outcome o: Fault and
\* nothing changed when the target is >= the program length, else Continue
\* with IP the target itself and nothing else changed
JumpRule(m, i, m2, o) ==
    LET target == read_addr(m, i.a).v
    IN  IF target >= Len(m.program)
        THEN IsFault(o) /\ m2 = m
        ELSE o = Continue /\ m2 = [m EXCEPT !.ip = target]

JumpTargets ==
    { Literal(0), Literal(1), Literal(2), Literal(3), Literal(WordMax),
      RegAbs(R0), RegAbs(SP), MemAbs(1), MemReg(R0) }

JumpConds == { Literal(0), Literal(1), RegAbs(R0), MemAbs(1) }

JumpInstrs ==
    {Jump(a) : a \in JumpTargets}
        \cup {JumpIfZero(a, b) : a \in JumpTargets, b \in JumpConds}
        \cup {JumpNotZero(a, b) : a \in JumpTargets, b \in JumpConds}

\* C10: a taken absolute jump whose target read(a) is >= the program length
\* returns Fault and leaves IP (and the machine) unchanged; with a target <
\* the program length it returns Continue with IP equal to the target.  This
\* holds of every jump a program executed, and of every jump instruction
\* that the machine could fetch in its current state.
C10_AbsoluteJump ==
    /\ (last.op = "execute_next" /\ JumpTaken(last.pre, last.ins)) =>
           JumpRule(last.pre, last.ins, mach, last.o)
    /\ \A i \in JumpInstrs :
           (FetchInBounds(mach) /\ JumpTaken(mach, i)) =>
               JumpRule(mach, i, dispatch(mach, i).m, dispatch(mach, i).o)

\* an executed Jump to Literal(program.len()) that faulted
C10_Witness ==
    /\ last.op = "execute_next"
    /\ last.ins.op = "Jump"
    /\ last.ins.a = Literal(Len(last.pre.program))
    /\ IsFault(last.o)
    /\ mach.ip = last.pre.ip

(* ========================== conditional jumps ========================== *)
\* the instruction i is a conditional jump whose two operands can be read
\* in machine m
CondJumpReads(m, i) ==
    /\ i.op \in {"JumpIfZero", "JumpNotZero"}
    /\ ~read_addr(m, i.a).panic
    /\ ~read_addr(m, i.b).panic

\* the predicate of the conditional jump i on the condition value read(b)
JumpPredicate(m, i) ==
    IF i.op = "JumpIfZero" THEN read_addr(m, i.b).v = 0
    ELSE read_addr(m, i.b).v # 0

\* the step from m to m2 with Outcome o only advanced IP by one: Continue,
\* or the advance's own Fault when it ran off the program end
AdvancedByOne(m, m2, o) ==
    /\ m2 = [m EXCEPT !.ip = m.ip + 1]
    /\ o = IF m.ip + 1 >= Len(m.program) THEN Fault("IP beyond program length")
           ELSE Continue

CondJumpRule(m, i, m2, o) ==
    IF JumpPredicate(m, i) THEN JumpRule(m, i, m2, o)
    ELSE AdvancedByOne(m, m2, o)

CondJumpInstrs == {i \in JumpInstrs : i.op # "Jump"}

\* C11: JumpIfZero(a, b) jumps to read(a) exactly when read(b) = 0 and
\* JumpNotZero(a, b) exactly when read(b) # 0 (a taken jump obeys the rule
\* of absolute jumps); when the predicate is false the step only advances IP
\* by one, and its outcome does not depend on the target, even when read(a)
\* is >= the program length.  This holds of every conditional jump a program
\* executed and of every conditional jump the machine could fetch in its
\* current state.
C11_ConditionalJump ==
    /\ (last.op = "execute_next" /\ CondJumpReads(last.pre, last.ins)) =>
           CondJumpRule(last.pre, last.ins, mach, last.o)
    /\ \A i \in CondJumpInstrs :
           (FetchInBounds(mach) /\ CondJumpReads(mach, i)) =>
               CondJumpRule(mach, i, dispatch(mach, i).m, dispatch(mach, i).o)

\* an executed conditional jump whose predicate was false and whose target
\* lies beyond the program: the step returned Continue with IP advanced
C11_Witness ==
    /\ last.op = "execute_next"
    /\ CondJumpReads(last.pre, last.ins)
    /\ ~JumpPredicate(last.pre, last.ins)
    /\ read_addr(last.pre, last.ins.a).v >= Len(last.pre.program)
    /\ last.o = Continue
    /\ mach.ip = last.pre.ip + 1

(* ====================== one program on a fresh machine ================= *)
\* words a program pushes
StackVals == {1, 2, WordMax}

\* a program of MAX_WORDS - 1 Push instructions and nothing else
PushProgram(a) == [i \in 1 .. MaxWords - 1 |-> Push(a)]

PushPrograms == {PushProgram(a) : a \in {Literal(1), RegAbs(R0)}}

\* sequences of at most MAX_WORDS - 2 pushed words
StackSeqs == UNION {[1 .. k -> StackVals] : k \in 0 .. MaxWords - 2}

\* Len(vs) Pushes of vs[1], vs[2], ..., then Len(vs) + 1 Pops into register r,
\* then Halt
LifoProgram(vs, r) ==
    [i \in 1 .. 2 * Len(vs) + 2 |->
        IF i <= Len(vs) THEN Push(Literal(vs[i]))
        ELSE IF i <= 2 * Len(vs) + 1 THEN Pop(RegAbs(r))
        ELSE Halt]

PopRegs == {"R0", "R7"}

LifoPrograms == {LifoProgram(vs, r) : vs \in StackSeqs, r \in PopRegs}

\* a program that empties the stack at the top of the word range and pops
PopAtTopProgram ==
    << Move(Literal(WordMax), RegAbs(BP)), Move(Literal(WordMax), RegAbs(SP)),
       Pop(RegAbs(R0)), Halt >>

\* a program that points SP above the memory cap and pushes
PushAboveCapProgram ==
    << Move(Literal(MaxWords + 2), RegAbs(SP)), Push(Literal(1)), Halt >>

\* Move u into a, then Add or Sub (a, b)
ArithProgram(op, a, u, b) ==
    << Move(Literal(u), a), [op |-> op, a |-> a, b |-> b], Halt >>

ArithOps == {"Add", "Sub"}

\* operands the arithmetic programs compute in
ArithDests == {RegAbs(R0), MemAbs(1), MemReg(SP)}

ArithPrograms ==
    {ArithProgram(op, a, u, Literal(v)) :
         op \in ArithOps, a \in ArithDests, u \in Word, v \in Word}
        \cup {ArithProgram(op, a, u, a) : op \in ArithOps, a \in ArithDests, u \in Word}

\* operands that name the stack pointer
SpOperands == {RegAbs(SP), MemReg(SP)}

\* two Pushes and a Pop, or a Push and a second Push, the operand of the last
\* stack instruction naming the stack pointer
SpRelPrograms ==
    {<< Push(Literal(1)), Push(Literal(2)), Pop(a), Halt >> : a \in SpOperands}
        \cup {<< Push(Literal(2)), Push(a), Halt >> : a \in SpOperands}

\* programs whose last instruction is not a Halt or a jump
OverrunPrograms ==
    { << NoOp, Zero(MemAbs(1)) >>,
      << Move(Literal(1), RegAbs(R0)), Output(RegAbs(R0)) >>,
      << Push(Literal(2)), Pop(RegAbs(R0)) >> }

\* a program that writes memory at index 1 and then beyond the size that
\* write left
GrowProgram ==
    << Move(Literal(1), MemAbs(1)), Move(Literal(2), MemAbs(MaxWords - 1)), Halt >>

\* a Pop on the empty stack of a fresh machine, then a Push of v and a Pop
UnderflowProgram(v) ==
    << Pop(RegAbs(R0)), Push(Literal(v)), Pop(RegAbs(R0)), Halt >>

UnderflowPrograms == {UnderflowProgram(v) : v \in StackVals}

ExecutePrograms ==
    PushPrograms \cup LifoPrograms \cup ArithPrograms \cup SpRelPrograms
        \cup OverrunPrograms \cup UnderflowPrograms
        \cup {PopAtTopProgram, PushAboveCapProgram, GrowProgram}

\* A host that constructs a machine, loads one program into it and steps it
\* to its end, as execute() does through run_for.
LoadFresh(p) == NeverLoaded(mach) /\ LoadProgram(p)

NextExecute ==
    \/ \E p \in ExecutePrograms : LoadFresh(p)
    \/ ExecuteNext

SpecExecute == Init /\ [][NextExecute]_vars

(* ============================ stack capacity =========================== *)
StackFault == Fault("Stack has overrun available memory!")

\* C12: on a machine freshly constructed with memory cap MAX_WORDS that
\* executes only Push instructions, exactly the first MAX_WORDS - 2 Pushes
\* return Continue and the next Push returns the stack-overflow Fault.  As a
\* run: run_for over the Push-only program returns (stack-overflow Fault,
\* MAX_WORDS - 2).  Step by step: every Push lowers SP by one from
\* MAX_WORDS - 1, the Pushes that find 2 <= SP <= MAX_WORDS - 1 (the first
\* MAX_WORDS - 2) return Continue, and the Push that finds SP = 1 (the next
\* one) faults.
C12_StackCapacity ==
    \A p \in PushPrograms :
        mach.program = p =>
               /\ \A input \in Inputs :
                      LET r == run_for(load_program(new(MaxWords, input), p), MaxWords - 1)
                      IN  r.o = StackFault /\ r.n = MaxWords - 2
               /\ mach.ip < MaxWords - 2 => mach.sp = MaxWords - 1 - mach.ip
               /\ (last.op = "execute_next" /\ last.ins.op = "Push" /\ last.pre.sp >= 2
                   /\ last.pre.sp < MaxWords) =>
                      /\ last.o = Continue
                      /\ mach.sp = last.pre.sp - 1
                      /\ last.pre.ip = MaxWords - 1 - last.pre.sp
               /\ (last.op = "execute_next" /\ last.ins.op = "Push" /\ last.pre.sp = 1) =>
                      /\ last.o = StackFault
                      /\ last.pre.ip = MaxWords - 2

\* the Push that found SP = 1 on a Push-only program: it came after
\* MAX_WORDS - 2 Pushes that returned Continue (IP counts them) and it
\* returned the stack-overflow Fault
C12_Witness ==
    /\ mach.program \in PushPrograms
    /\ last.op = "execute_next"
    /\ last.ins.op = "Push"
    /\ last.pre.sp = 1
    /\ last.pre.ip = MaxWords - 2
    /\ last.o = StackFault
    /\ mach.ip = MaxWords - 2
    /\ mach.sp = 0

(* ========================= Pop on an empty stack ======================= *)
\* write_addr(a, _) returns Continue in machine m
Writable(m, a) == write_addr(m, a, 0).o = Continue

IPBeyondProgram == Fault("IP beyond program length")

\* C13: whenever SP >= BP and the destination a is writable, an executed
\* Pop(a) writes 0 to a and returns Continue, or the advance's Fault when it
\* ran off the program end; it does not end any other way.
C13_PopEmptyNoFault ==
    (/\ last.op = "execute_next"
     /\ last.ins.op = "Pop"
     /\ last.pre.sp >= last.pre.bp
     /\ Writable(last.pre, last.ins.a)) =>
        /\ last.o \in {Continue, IPBeyondProgram}
        /\ read_addr(mach, last.ins.a) = ReadOk(0)

(* ============================ fault propagation ======================== *)
\* the operand an instruction writes
Dest(i) == IF i.op = "Move" THEN i.b ELSE i.a

\* instruction i, executed on machine m, gets as far as a write of data
\* memory at index l: its reads succeed, its input is there, and for Push
\* the new SP has passed the stack guard
ReachesMemWrite(m, i, l) ==
    \/ /\ i.op \in {"Zero", "Move", "Add", "Sub", "Input"}
       /\ Dest(i).kind \in {"MemAbs", "MemReg"}
       /\ l = MemIndex(m, Dest(i))
       /\ i.op \in {"Move", "Add", "Sub"} => ~read_addr(m, i.a).panic
       /\ i.op \in {"Add", "Sub"} => ~read_addr(m, i.b).panic
       /\ i.op = "Input" => m.input # << >>
    \/ /\ i.op = "Pop"
       /\ i.a.kind = "MemAbs"
       /\ l = i.a.w
    \/ /\ i.op = "Push"
       /\ ~read_addr(m, i.a).panic
       /\ \/ m.sp >= 2 /\ l = m.sp - 1
          \/ m.sp = 0 /\ ~overflow_checks /\ l = WordMax

\* C17: an executed instruction whose memory write faults (index >
\* MAX_WORDS) returns that Fault, never Continue, and does not advance IP;
\* this holds for Push as for every other writing instruction.
C17_FaultPropagation ==
    \A l \in Word :
        (/\ last.op = "execute_next"
         /\ ~IsPanic(last.o)
         /\ ReachesMemWrite(last.pre, last.ins, l)
         /\ l > last.pre.max_words) =>
            /\ last.o = Fault("Tried to write out of available memory")
            /\ mach.ip = last.pre.ip

(* ============================== LIFO order ============================= *)
\* C14: on a fresh machine, k Pushes of v1..vk (0 <= k <= MAX_WORDS - 2)
\* followed by k + 1 Pops into a general register deliver vk, ..., v1 in
\* that order and then 0 for the extra Pop, and no step faults.  Step by
\* step: the j-th Pop returns Continue and leaves v(k-j+1) in the register,
\* or 0 when j = k + 1.  As a run: run_for over the whole program ends in
\* Halt after the 2k + 1 stack instructions, each charged one cycle.
C14_LifoOrder ==
    \A vs \in StackSeqs, r \in PopRegs :
        LET k == Len(vs)
            p == LifoProgram(vs, r)
        IN  mach.program = p =>
                /\ \A input \in Inputs :
                       LET res == run_for(load_program(new(MaxWords, input), p), 2 * k + 2)
                       IN  /\ res.o = OHalt
                           /\ res.n = 2 * k + 1
                           /\ read_register(res.m, r) = 0
                /\ last.op = "execute_next" =>
                       /\ last.o \in {Continue, OHalt}
                       /\ last.ins.op = "Pop" =>
                              LET j == last.pre.ip - k + 1
                              IN  read_register(mach, r) =
                                      IF j <= k THEN vs[k - j + 1] ELSE 0

\* the extra Pop of a program that filled the stack to its capacity: it
\* followed the Pop that delivered v1, returned Continue and delivered 0
C14_Witness ==
    \E vs \in StackSeqs, r \in PopRegs :
        /\ Len(vs) = MaxWords - 2
        /\ mach.program = LifoProgram(vs, r)
        /\ last.op = "execute_next"
        /\ last.ins.op = "Pop"
        /\ last.pre.ip = 2 * Len(vs)
        /\ read_register(last.pre, r) = vs[1]
        /\ vs[1] # vs[Len(vs)]
        /\ last.o = Continue
        /\ read_register(mach, r) = 0

(* ========================== wrapping arithmetic ======================== *)
\* (u + v) mod 2^w and (u - v) mod 2^w
SumMod(u, v) == IF u + v >= WordMod THEN u + v - WordMod ELSE u + v

DiffMod(u, v) == IF u >= v THEN u - v ELSE WordMod - (v - u)

\* C15: for all words u, v, every writable operand a holding u and operand
\* b holding v, an executed Add(a, b) leaves (u + v) mod 2^w in a and an
\* executed Sub(a, b) leaves (u - v) mod 2^w in a; the step returns Continue
\* (or the advance's Fault at the program end), never a Fault or panic for
\* the overflow or underflow; and when a and b are the same location the
\* words read before the write are used: Add doubles, Sub yields 0.
C15_WrappingArith ==
    (/\ last.op = "execute_next"
     /\ last.ins.op \in ArithOps
     /\ ~read_addr(last.pre, last.ins.a).panic
     /\ ~read_addr(last.pre, last.ins.b).panic
     /\ Writable(last.pre, last.ins.a)) =>
        LET u == read_addr(last.pre, last.ins.a).v
            v == read_addr(last.pre, last.ins.b).v
            want == IF last.ins.op = "Add" THEN SumMod(u, v) ELSE DiffMod(u, v)
        IN  /\ last.o \in {Continue, IPBeyondProgram}
            /\ read_addr(mach, last.ins.a) = ReadOk(want)
            /\ last.ins.a = last.ins.b =>
                   want = IF last.ins.op = "Add" THEN SumMod(u, u) ELSE 0

\* an executed Sub on a memory operand that underflowed and wrapped
C15_Witness ==
    /\ last.op = "execute_next"
    /\ last.ins.op = "Sub"
    /\ last.ins.a.kind \in {"MemAbs", "MemReg"}
    /\ read_addr(last.pre, last.ins.a) = ReadOk(0)
    /\ read_addr(last.pre, last.ins.b) = ReadOk(1)
    /\ last.o = Continue
    /\ read_addr(mach, last.ins.a) = ReadOk(WordMax)

(* ====================== register-indirect addressing =================== *)
\* the step from m with Outcome o stored its word: it returned Continue, or
\* only the advance after the store faulted
Stored(o) == o \in {Continue, IPBeyondProgram}

\* C16: MemReg(r) is one indirection through the current contents of r.  In
\* every reachable state and for every register r holding l:
\* read_addr(MemReg(r)) equals read_addr(MemAbs(l)); write_addr(MemReg(r), v)
\* leaves the same machine and returns the same Outcome as
\* write_addr(MemAbs(l), v); a Move of v to MemReg(r) followed by
\* Output(MemReg(r)) (r not written in between, the writer having room)
\* emits v; and every Output(MemReg(r)) a program executed emitted the word
\* at memory index l.
C16_SingleIndirection ==
    /\ \A r \in Register :
           LET l == read_register(mach, r)
           IN  /\ read_addr(mach, MemReg(r)) = read_addr(mach, MemAbs(l))
               /\ \A v \in HostVals :
                      /\ write_addr(mach, MemReg(r), v) = write_addr(mach, MemAbs(l), v)
                      /\ LET mv == dispatch(mach, Move(Literal(v), MemReg(r)))
                             out == dispatch(mv.m, Output(MemReg(r)))
                         IN  (Stored(mv.o) /\ Len(mach.output) < OutCap) =>
                                 /\ Stored(out.o)
                                 /\ out.m.output = Append(mach.output, v)
    /\ (/\ last.op = "execute_next"
        /\ last.ins.op = "Output"
        /\ last.ins.a.kind = "MemReg"
        /\ Stored(last.o)) =>
           LET l == read_register(last.pre, last.ins.a.r)
           IN  mach.output = Append(last.pre.output, read_addr(last.pre, MemAbs(l)).v)

\* an executed Output(MemReg(r)) that emitted the word a Move had stored
\* through MemReg(r), at the memory index r holds
C16_Witness ==
    /\ last.op = "execute_next"
    /\ last.ins.op = "Output"
    /\ last.ins.a.kind = "MemReg"
    /\ last.o = Continue
    /\ read_register(mach, last.ins.a.r) >= 1
    /\ mach.output = << WordMax >>
    /\ mach.memory[read_register(mach, last.ins.a.r) + 1] = WordMax

(* ================================= Halt ================================ *)
\* a call that executes at least one instruction has returned
SteppingCallReturned ==
    /\ pc = "idle"
    /\ ret.op \in {"execute_next", "run", "run_for"}
    /\ ret.op = "run_for" => cycles > 0

\* C18: an executed Halt returns Halt and leaves the whole machine (IP,
\* registers, SP, BP, memory, input position, output) as it was; so on a
\* machine whose last step returned Halt, execute_next returns Halt again
\* and run_for(N), N > 0, returns (Halt, 0), both leaving the machine
\* unchanged; and every execute_next, run and run_for(N > 0) call the host
\* made after a step had returned Halt returned Halt, with 0 cycles.
C18_HaltSticky ==
    /\ (last.op = "execute_next" /\ last.ins.op = "Halt") =>
           last.o = OHalt /\ mach = last.pre
    /\ HaltedBefore =>
           /\ execute_next(mach) = [m |-> mach, o |-> OHalt]
           /\ \A n \in 1 .. MaxCycles :
                  run_for(mach, n) = [m |-> mach, o |-> OHalt, n |-> 0]
    /\ (after_halt /\ SteppingCallReturned) =>
           /\ ret.o = OHalt
           /\ ret.n = 0
           /\ last.o = OHalt
           /\ mach = last.pre

\* run_for(N), N > 0, called on a machine that had already returned Halt
\* after emitting output: it returned (Halt, 0)
C18_Witness ==
    /\ after_halt
    /\ RunForReturned
    /\ cycles > 0
    /\ steps = 1
    /\ ret.o = OHalt
    /\ ret.n = 0
    /\ mach.output # << >>
    /\ mach.ip > 0

(* ============================= load_program ============================ *)
\* machines m and m2 agree on everything but the program and IP
SameButProgram(m, m2) ==
    /\ m2.registers = m.registers
    /\ m2.sp = m.sp
    /\ m2.bp = m.bp
    /\ m2.memory = m.memory
    /\ m2.input = m.input
    /\ m2.output = m.output
    /\ m2.max_words = m.max_words

\* C19: load_program(P), in any reachable state (between the steps of a
\* run, after a Halt, after a Fault), sets program = P and IP = 0 and leaves
\* the registers, SP, BP, memory, input position and output unchanged;
\* loading the same P twice gives the state one load gives.  This holds of
\* every program of Programs loaded into every reachable machine, and of
\* every load_program call the host made.
C19_LoadProgram ==
    /\ \A p \in Programs :
           LET m1 == load_program(mach, p)
           IN  /\ m1.program = p
               /\ m1.ip = 0
               /\ SameButProgram(mach, m1)
               /\ load_program(m1, p) = m1
    /\ last.op = "load_program" =>
           /\ mach.ip = 0
           /\ SameButProgram(last.pre, mach)

\* a load_program over a program that had run: IP was past the start, a
\* register and the output were written, and the load reset IP only
C19_Witness ==
    /\ last.op = "load_program"
    /\ last.pre.ip > 0
    /\ last.pre.program # mach.program
    /\ mach.ip = 0
    /\ mach.output # << >>
    /\ mach.registers[0] # 0
    /\ mach.registers = last.pre.registers

(* ========================== the initial program ======================== *)
IllegalFault == Fault("Illegal instruction encountered.")

\* C20: a freshly constructed machine holds the one-instruction program
\* [Illegal]; while load_program has not been called its execute_next
\* returns Fault and run_for(N), N > 0, returns (Fault, 0); and fetching
\* Illegal in any loaded program returns Fault and leaves IP and the rest of
\* the machine as they were.
C20_InitialProgram ==
    /\ \A input \in Inputs :
           LET m0 == new(MaxWords, input)
           IN  /\ m0.program = << Illegal >>
               /\ execute_next(m0) = [m |-> m0, o |-> IllegalFault]
               /\ \A n \in 1 .. MaxCycles :
                      run_for(m0, n) = [m |-> m0, o |-> IllegalFault, n |-> 0]
    /\ NeverLoaded(mach) =>
           /\ last.op = "execute_next" => last.o = IllegalFault
           /\ (RunForReturned /\ cycles > 0) => (ret.o = IllegalFault /\ ret.n = 0)
    /\ (last.op = "execute_next" /\ last.ins.op = "Illegal") =>
           last.o = IllegalFault /\ mach = last.pre
    /\ (FetchInBounds(mach) /\ Fetched(mach).op = "Illegal") =>
           execute_next(mach) = [m |-> mach, o |-> IllegalFault]

\* run_for(N), N > 0, on a machine that was never loaded returned (Fault, 0)
\* after its one step
C20_Witness ==
    /\ NeverLoaded(mach)
    /\ RunForReturned
    /\ cycles > 0
    /\ steps = 1
    /\ ret.o = IllegalFault
    /\ ret.n = 0
    /\ mach.ip = 0

(* ============================= output stream =========================== *)
\* the bound writer takes one more word from machine m
WriteSucceeds(m) == m.out_grows \/ Len(m.output) < OutCap

\* the step of machine m is an Output whose operand can be read and whose
\* word the writer takes
Emits(m) ==
    /\ Fetched(m).op = "Output"
    /\ ~read_addr(m, Fetched(m).a).panic
    /\ WriteSucceeds(m)

\* the words the Output instructions emit, in order, while run_for steps
\* machine m with n instructions remaining; m.output is not consulted
RECURSIVE Emitted(_, _)
Emitted(m, n) ==
    IF n = 0 THEN << >>
    ELSE LET r == execute_next(m)
             e == IF Emits(m) THEN << read_addr(m, Fetched(m).a).v >> ELSE << >>
         IN  IF r.o = Continue THEN e \o Emitted(r.m, n - 1) ELSE e

IsPrefix(s, t) == Len(s) <= Len(t) /\ SubSeq(t, 1, Len(s)) = s

\* limits a host passes to execute
Limits == {None} \cup {Some(n) : n \in 0 .. MaxCycles}

\* the machine is as construction and one load_program leave it
FreshlyLoaded(m) == m = load_program(new(MaxWords, m.input), m.program)

\* C21: the output stream is append-only and changes only by Output.  Every
\* executed Output(a) whose operand is read and whose stream write succeeds
\* appends exactly the word read(a) at the end of the output; an Output
\* whose write fails, every other instruction, load_program, write_addr and
\* load_memory leave the output as it was; a run of any length only extends
\* the output, whether it stops on Halt, on a Fault or on its cap; and
\* execute returns exactly the words its run emitted up to the terminal
\* outcome.
C21_OutputAppendOnly ==
    /\ (last.op = "execute_next" /\ Emits(last.pre)) =>
           /\ mach.output = Append(last.pre.output, read_addr(last.pre, last.ins.a).v)
           /\ Stored(last.o)
    /\ (last.op = "execute_next" /\ ~Emits(last.pre)) => mach.output = last.pre.output
    /\ last.op = "load_program" => mach.output = last.pre.output
    /\ \A a \in HostAddrs, v \in HostVals : write_addr(mach, a, v).m.output = mach.output
    /\ \A mem \in Memories : load_memory(mach, mem).output = mach.output
    /\ FreshlyLoaded(mach) =>
           /\ \A n \in 0 .. MaxCycles :
                  LET r == run_for(mach, n)
                  IN  /\ r.m.output = Emitted(mach, n)
                      /\ \A k \in 0 .. n : IsPrefix(run_for(mach, k).m.output, r.m.output)
           /\ \A limit \in Limits :
                  LET e == execute(mach.program, mach.input, limit)
                  IN  ~IsPanic(e.o) =>
                          e.output = Emitted(execute_machine(mach.program, mach.input),
                                             actual_limit(limit))

\* a second Output of a run: it appended its word behind the word an
\* earlier Output had emitted
C21_Witness ==
    /\ last.op = "execute_next"
    /\ last.ins.op = "Output"
    /\ Len(last.pre.output) = 1
    /\ mach.output = Append(last.pre.output, read_addr(last.pre, last.ins.a).v)
    /\ mach.output[1] # mach.output[2]

(* ============================== input queue ============================ *)
\* the step of machine m is an Input whose read of the queue succeeds
Consumes(m) == Fetched(m).op = "Input" /\ m.input # << >>

\* the words that Input instructions left in their destinations, in order,
\* while run_for steps machine m with n instructions remaining: after each
\* Input whose read and store succeeded, the word its destination holds
RECURSIVE Received(_, _)
Received(m, n) ==
    IF n = 0 THEN << >>
    ELSE LET r == execute_next(m)
             e == IF Consumes(m) /\ Stored(r.o)
                  THEN << read_addr(r.m, Fetched(m).a).v >> ELSE << >>
         IN  IF r.o = Continue THEN e \o Received(r.m, n - 1) ELSE e

\* C22: Input consumes the input queue strictly in order, one word per
\* executed Input.  An executed Input whose read succeeds takes the word at
\* the head of the queue and, when its store succeeds, leaves it in its
\* destination; so in a run from a freshly loaded machine the words the
\* Inputs received are the first words of the input sequence, in order, and
\* what is left of the queue is the rest.  No other instruction and no
\* load_program consumes input, and an Input executed on an exhausted queue
\* returns Fault and leaves the machine (IP, registers, SP, BP, memory) as it
\* was.
C22_InputInOrder ==
    /\ (last.op = "execute_next" /\ Consumes(last.pre)) =>
           /\ mach.input = Tail(last.pre.input)
           /\ Stored(last.o) => read_addr(mach, last.ins.a) = ReadOk(Head(last.pre.input))
    /\ (last.op = "execute_next" /\ last.ins.op = "Input" /\ last.pre.input = << >>) =>
           /\ last.o = Fault("Failed to read on input instruction")
           /\ mach = last.pre
    /\ (last.op = "execute_next" /\ last.ins.op # "Input") => mach.input = last.pre.input
    /\ last.op = "load_program" => mach.input = last.pre.input
    /\ \A a \in HostAddrs :
           LET r == dispatch(mach, Input(a))
           IN  IF mach.input = << >>
               THEN r.m = mach /\ r.o = Fault("Failed to read on input instruction")
               ELSE /\ r.m.input = Tail(mach.input)
                    /\ Stored(r.o) => read_addr(r.m, a) = ReadOk(Head(mach.input))
    /\ FreshlyLoaded(mach) =>
           \A n \in 0 .. MaxCycles :
               LET r == run_for(mach, n)
                   got == Received(mach, n)
               IN  ~IsPanic(r.o) =>
                       /\ IsPrefix(got, mach.input)
                       /\ Len(r.m.input) <= Len(mach.input) - Len(got)
                       /\ r.m.input = SubSeq(mach.input, Len(mach.input) - Len(r.m.input) + 1,
                                             Len(mach.input))

\* the second Input of a run received the second word of the input
\* sequence << WordMax, 1 >> and left the queue empty
C22_Witness ==
    /\ last.op = "execute_next"
    /\ last.ins.op = "Input"
    /\ last.pre.input = << 1 >>
    /\ last.pre.output = << WordMax >>
    /\ read_addr(mach, last.ins.a) = ReadOk(1)
    /\ mach.input = << >>

(* ============================== determinism ============================ *)
\* A host that constructs two machines from the same max_words and input,
\* loads the same program into both and calls run_for with the same cap on
\* both, the two calls advancing in any interleaving.
FirstCall(n) == ret.op = "load_program" /\ RunForCall(n)

Called == pc = "run_for" \/ ret.op = "run_for"
TwinCalled == twin.pc = "run_for" \/ twin.ret.op = "run_for"

TwinLoad ==
    /\ twin.pc = "idle"
    /\ NeverLoaded(twin.m)
    /\ ~NeverLoaded(mach)
    /\ twin' = [twin EXCEPT !.m = load_program(twin.m, mach.program)]
    /\ UNCHANGED << mach, overflow_checks, pc, instructions_remaining, cycles, ret, last,
                    resuming, steps, conts, after_halt, host_writes, stored >>

TwinCall ==
    /\ twin.pc = "idle"
    /\ ~NeverLoaded(twin.m)
    /\ ~TwinCalled
    /\ Called
    /\ twin' = [twin EXCEPT !.pc = "run_for", !.remaining = cycles, !.n = 0]
    /\ UNCHANGED << mach, overflow_checks, pc, instructions_remaining, cycles, ret, last,
                    resuming, steps, conts, after_halt, host_writes, stored >>

TwinStep ==
    /\ twin.pc = "run_for"
    /\ twin.remaining > 0
    /\ LET r == execute_next(twin.m)
       IN  twin' = IF r.o = Continue
                   THEN [twin EXCEPT !.m = r.m, !.o = r.o, !.n = twin.n + 1,
                                     !.remaining = twin.remaining - 1]
                   ELSE [twin EXCEPT !.m = r.m, !.o = r.o, !.n = twin.n + 1,
                                     !.pc = AfterCall(r.o),
                                     !.ret = Ret("run_for", r.o,
                                                 ChargedCycles(cycles, twin.remaining), 0)]
    /\ UNCHANGED << mach, overflow_checks, pc, instructions_remaining, cycles, ret, last,
                    resuming, steps, conts, after_halt, host_writes, stored >>

TwinReturn ==
    /\ twin.pc = "run_for"
    /\ ~(twin.remaining > 0)
    /\ twin' = [twin EXCEPT !.pc = "idle",
                            !.ret = Ret("run_for", Continue,
                                        ChargedCycles(cycles, twin.remaining), 0)]
    /\ UNCHANGED << mach, overflow_checks, pc, instructions_remaining, cycles, ret, last,
                    resuming, steps, conts, after_halt, host_writes, stored >>

NextTwin ==
    \/ \E p \in Programs : LoadFresh(p)
    \/ \E n \in 0 .. MaxCycles : FirstCall(n)
    \/ RunForStep
    \/ RunForReturn
    \/ TwinLoad
    \/ TwinCall
    \/ TwinStep
    \/ TwinReturn

SpecTwin == Init /\ [][NextTwin]_vars

\* the run_for call has ended, by returning or by a panic
Ended == pc \in {"idle", "panic"} /\ ret.op = "run_for"
TwinEnded == twin.pc \in {"idle", "panic"} /\ twin.ret.op = "run_for"

OutputFault == Fault("Failed to write on output instruction")

SepAddrs == {RegAbs(R0), RegAbs(SP), MemAbs(1), MemReg(R0), Literal(1)}

\* the 14 instruction variants over SepAddrs
SepInstrs ==
    {NoOp, Halt, Illegal}
        \cup {[op |-> o, a |-> a, b |-> NoAddr] :
                  o \in {"Zero", "Output", "Input", "Jump", "Push", "Pop"}, a \in SepAddrs}
        \cup {[op |-> o, a |-> a, b |-> b] :
                  o \in {"Move", "Add", "Sub", "JumpIfZero", "JumpNotZero"},
                  a \in SepAddrs, b \in SepAddrs}

JumpOps == {"Jump", "JumpIfZero", "JumpNotZero"}

\* the step of instruction i from machine m to m2 with Outcome o left IP
\* alone, or advanced it by one (next_instr), or set it to the jump target
\* read(a) < program length (absolute_jump returning Continue)
IPRule(m, i, m2, o) ==
    \/ m2.ip = m.ip
    \/ /\ i.op \notin {"Jump", "Halt", "Illegal", "none"}
       /\ m2.ip = m.ip + 1
       /\ Stored(o)
    \/ /\ i.op \in JumpOps
       /\ ~read_addr(m, i.a).panic
       /\ m2.ip = read_addr(m, i.a).v
       /\ m2.ip < Len(m.program)
       /\ o = Continue

\* C24: no executed instruction and no write_addr, read_addr or load_memory
\* call changes the loaded program; write_addr, load_memory, write_register
\* and write_memory leave IP alone; an executed instruction leaves IP alone,
\* advances it by one, or (a jump whose target is in range) sets it to the
\* target; load_program alone replaces the program, and sets IP to 0.  This
\* holds of every operation performed and of every instruction and write the
\* machine could be given in its current state.
C24_HarvardSeparation ==
    /\ last.op \in {"execute_next", "write_addr", "read_addr", "load_memory"} =>
           mach.program = last.pre.program
    /\ last.op \in {"write_addr", "read_addr", "load_memory"} => mach.ip = last.pre.ip
    /\ last.op = "execute_next" => IPRule(last.pre, last.ins, mach, last.o)
    /\ last.op = "load_program" => mach.ip = 0
    /\ \A p \in Reloads : load_program(mach, p).ip = 0 /\ load_program(mach, p).program = p
    /\ \A i \in SepInstrs :
           LET r == dispatch(mach, i)
           IN  r.m.program = mach.program /\ IPRule(mach, i, r.m, r.o)
    /\ \A a \in HostAddrs, v \in HostVals :
           LET w == write_addr(mach, a, v)
           IN  w.m.program = mach.program /\ w.m.ip = mach.ip
    /\ \A r \in Register, v \in HostVals :
           LET m2 == write_register(mach, r, v)
           IN  m2.program = mach.program /\ m2.ip = mach.ip
    /\ \A mem \in Memories :
           LET m2 == load_memory(mach, mem)
           IN  m2.program = mach.program /\ m2.ip = mach.ip

\* an executed Move into the register SP, after the program had advanced:
\* SP changed, IP went on by one and the program is as it was
C24_Witness ==
    /\ last.op = "execute_next"
    /\ last.ins.op = "Move"
    /\ last.ins.b = RegAbs(SP)
    /\ last.o = Continue
    /\ last.pre.ip > 0
    /\ mach.sp # last.pre.sp
    /\ mach.ip = last.pre.ip + 1
    /\ mach.program = last.pre.program

(* ========================= serialization round trip ==================== *)
\* all addresses: the 4 addressing modes over the 10 registers and all words
AllAddrs ==
    {RegAbs(r) : r \in Register} \cup {MemReg(r) : r \in Register}
        \cup {MemAbs(w) : w \in Word} \cup {Literal(w) : w \in Word}

\* the 14 instruction variants, each operand ranging over all addresses
\* (two-operand variants: one operand over all addresses, the other over
\* one address of each mode)
AllInstrs ==
    {NoOp, Halt, Illegal}
        \cup {[op |-> o, a |-> a, b |-> NoAddr] : o \in OneOps, a \in AllAddrs}
        \cup {[op |-> o, a |-> a, b |-> b] : o \in TwoOps, a \in AllAddrs, b \in SepAddrs}
        \cup {[op |-> o, a |-> a, b |-> b] : o \in TwoOps, a \in SepAddrs, b \in AllAddrs}

\* the program of test_cbor_serde
SerdeTestProgram ==
    << NoOp, Input(MemAbs(1)), Input(RegAbs("R1")), Add(RegAbs("R1"), MemAbs(1)),
       Output(RegAbs("R1")), Halt >>

\* programs a host serializes: every single instruction, the test's
\* program, and the programs the other hosts run
CodecPrograms ==
    {<< i >> : i \in AllInstrs \ {Illegal}} \cup {SerdeTestProgram} \cup Programs

\* A host that loads a program, serializes it, and loads what it
\* deserializes from the serialized form.
Serialize ==
    /\ pc = "idle"
    /\ ~NeverLoaded(mach)
    /\ stored = NotStored
    /\ stored' = to_vec_sd(mach.program)
    /\ UNCHANGED << mach, overflow_checks, pc, instructions_remaining, cycles, ret, last,
                    resuming, steps, conts, after_halt, host_writes, twin >>

Deserialize ==
    /\ pc = "idle"
    /\ stored # NotStored
    /\ from_slice(stored).ok
    /\ last.op # "from_slice"
    /\ mach' = load_program(mach, from_slice(stored).v)
    /\ ret' = Ret("from_slice", Continue, 0, 0)
    /\ last' = Last("from_slice", mach, NoIns, NoAddr, 0, Continue)
    /\ UNCHANGED << overflow_checks, pc, instructions_remaining, cycles, resuming, steps,
                    conts, after_halt, host_writes, twin, stored >>

NextCodec ==
    \/ \E p \in CodecPrograms : LoadFresh(p)
    \/ Serialize
    \/ Deserialize

SpecCodec == Init /\ [][NextCodec]_vars

\* C25: for every well-formed program P (a finite sequence of the 14
\* instruction variants over the 4 addressing modes, the 10 registers and
\* all words), deserializing the serialized form of P succeeds and yields a
\* program equal to P: the serialized form the host holds decodes to the
\* program it was made from, and the program loaded from it is that program.
C25_SerializationRoundTrip ==
    /\ stored # NotStored =>
           /\ from_slice(stored).ok
           /\ from_slice(stored).v = mach.program
    /\ last.op = "from_slice" => mach.program = last.pre.program

\* the program of test_cbor_serde has come back from its serialized form
C25_Witness ==
    /\ last.op = "from_slice"
    /\ stored = to_vec_sd(SerdeTestProgram)
    /\ mach.program = SerdeTestProgram

(* ===================== SP after Pop on an empty stack ================== *)
\* C26: after an executed Pop(a) that found the stack empty (SP >= BP) and
\* whose destination is neither the register SP nor the register BP, SP
\* equals BP; and in a program of Pushes and Pops into general registers
\* SP <= BP holds in every state.
C26_PopEmptySPEqualsBP ==
    /\ (/\ last.op = "execute_next"
        /\ last.ins.op = "Pop"
        /\ last.pre.sp >= last.pre.bp
        /\ last.ins.a \notin {RegAbs(SP), RegAbs(BP)}
        /\ ~IsPanic(last.o)) =>
           mach.sp = mach.bp
    /\ mach.program \in LifoPrograms => mach.sp <= mach.bp

(* ======================= Pop on a non-empty stack ====================== *)
\* C27: an executed Pop(a) that found the stack non-empty (SP < BP) first
\* writes mem[SP] to a and then sets SP to SP + 1, for every destination a,
\* SP-relative ones included: the machine it leaves is the one that
\* write_addr(a, mem[SP]) on the machine before, followed by SP + 1 and the
\* advance, leaves; and mem[old SP] still holds the popped word.
C27_PopWriteThenIncrement ==
    (/\ last.op = "execute_next"
     /\ last.ins.op = "Pop"
     /\ last.pre.sp < last.pre.bp
     /\ ~read_memory(last.pre, last.pre.sp).panic
     /\ Stored(last.o)) =>
        LET val == read_memory(last.pre, last.pre.sp).v
            w == write_addr(last.pre, last.ins.a, val)
        IN  /\ w.o = Continue
            /\ mach = [w.m EXCEPT !.sp = (w.m.sp + 1) % WordMod, !.ip = w.m.ip + 1]
            /\ read_memory(mach, last.pre.sp) = ReadOk(val)

(* ========================= Push at SP = 0 ============================== *)
\* C28: an executed Push that found SP = 0, so that its decrement wraps
\* below 0, returns the stack-overflow Fault and writes nothing to memory.
C28_PushDetectsWrap ==
    (/\ last.op = "execute_next"
     /\ last.ins.op = "Push"
     /\ last.pre.sp = 0
     /\ ~read_addr(last.pre, last.ins.a).panic) =>
        /\ last.o = StackFault
        /\ mach.memory = last.pre.memory

(* ===================== Push: the operand and the store ================= *)
\* C29: an executed Push(a) that succeeds lowers SP by exactly one and
\* stores at mem[new SP] the word read(a), read after the decrement, for
\* every operand a, SP-relative ones included; afterwards
\* read_addr(MemReg(SP)) yields that word and every other memory cell below
\* the old physical length is as it was.
C29_PushReadAfterDecrement ==
    (/\ last.op = "execute_next"
     /\ last.ins.op = "Push"
     /\ last.pre.sp >= 2
     /\ last.pre.sp - 1 <= last.pre.max_words
     /\ Stored(last.o)) =>
        LET m1 == [last.pre EXCEPT !.sp = last.pre.sp - 1]
            val == read_addr(m1, last.ins.a)
        IN  ~val.panic =>
                /\ mach.sp = last.pre.sp - 1
                /\ read_addr(mach, MemReg(SP)) = ReadOk(val.v)
                /\ \A l \in 0 .. Len(last.pre.memory) - 1 :
                       l # mach.sp => mach.memory[l + 1] = last.pre.memory[l + 1]

(* ======================= program-counter overrun ======================= *)
\* instructions that end by the next-instruction advance when they succeed
AdvancingOps == {"NoOp", "Zero", "Move", "Output", "Input", "Add", "Sub", "Push", "Pop"}

\* machine m with one more instruction behind its program
Extended(m) == [m EXCEPT !.program = Append(m.program, Halt)]

\* C30: every non-jump, non-Halt, non-Illegal instruction that succeeds
\* ends by the next-instruction advance, which increments IP and returns
\* Fault when the new IP >= the program length.  Such an instruction
\* returns Continue only with IP advanced by one to an index of the program;
\* at the last index of the program, whenever it would have succeeded had
\* the program been longer, it returns the advance's Fault with exactly the
\* same write or output applied and IP equal to the program length; run_for
\* does not charge that step; and a program without Halt and without jumps
\* never ends in Halt.
C30_ProgramCounterOverrun ==
    /\ (last.op = "execute_next" /\ last.ins.op \in AdvancingOps /\ last.o = Continue) =>
           mach.ip = last.pre.ip + 1 /\ mach.ip < Len(mach.program)
    /\ (last.op = "execute_next" /\ last.o = IPBeyondProgram) =>
           /\ last.pre.ip = Len(mach.program) - 1
           /\ mach.ip = Len(mach.program)
           /\ dispatch(Extended(last.pre), last.ins) = [m |-> Extended(mach), o |-> Continue]
    /\ \A i \in SepInstrs :
           (i.op \in AdvancingOps /\ mach.ip = Len(mach.program) - 1
            /\ dispatch(Extended(mach), i).o = Continue) =>
               LET r == dispatch(mach, i)
               IN  /\ r.o = IPBeyondProgram
                   /\ r.m.ip = Len(mach.program)
                   /\ Extended(r.m) = dispatch(Extended(mach), i).m
    /\ (FreshlyLoaded(mach) /\ \A k \in 1 .. Len(mach.program) :
                                   mach.program[k].op \in AdvancingOps) =>
           LET r == run_for(mach, WordMax)
           IN  /\ r.o # OHalt
               /\ r.o = IPBeyondProgram => r.n = Len(mach.program) - 1 /\ r.m.ip = Len(mach.program)

\* an Output at the last index of its program: the word was emitted, the
\* step returned the advance's Fault and IP is the program length
C30_Witness ==
    /\ last.op = "execute_next"
    /\ last.ins.op = "Output"
    /\ last.pre.ip = Len(mach.program) - 1
    /\ last.o = IPBeyondProgram
    /\ mach.output = Append(last.pre.output, 1)
    /\ mach.ip = Len(mach.program)
    /\ run_for(load_program(mach, mach.program), WordMax).n = 1

(* ============================ memory growth ============================ *)
\* memory vector after is what a write of v at index l makes of before:
\* length l + 1 when l is beyond the size of before and the size of before
\* otherwise, v at l, the cells before had unchanged, every other cell 0
GrowthRule(before, l, v, after) ==
    /\ Len(after) = IF l >= Len(before) THEN l + 1 ELSE Len(before)
    /\ \A k \in 0 .. Len(after) - 1 :
           after[k + 1] = IF k = l THEN v
                          ELSE IF k < Len(before) THEN before[k + 1] ELSE 0

\* C31: a successful write at index l beyond the current physical size makes
\* the memory seen through get_memory() exactly l + 1 long, with v at l,
\* every other new cell 0 and all earlier cells unchanged; a successful
\* write inside the current size leaves the length unchanged and changes
\* only cell l; and no executed instruction shrinks the memory.  This holds
\* of every write_memory and write_addr the machine could be given in its
\* current state and of every instruction executed.
C31_MemoryGrowth ==
    /\ \A l \in Word, v \in HostVals :
           /\ LET w == write_memory(mach, l, v)
              IN  w.o = Continue => GrowthRule(get_memory(mach), l, v, get_memory(w.m))
           /\ LET w == write_addr(mach, MemAbs(l), v)
              IN  w.o = Continue => GrowthRule(get_memory(mach), l, v, get_memory(w.m))
    /\ \A i \in SepInstrs : Len(get_memory(dispatch(mach, i).m)) >= Len(get_memory(mach))
    /\ last.op = "execute_next" =>
           /\ Len(get_memory(mach)) >= Len(get_memory(last.pre))
           /\ \A l \in Word :
                  (/\ last.ins.op \in {"Zero", "Move", "Add", "Sub", "Input"}
                   /\ ReachesMemWrite(last.pre, last.ins, l)
                   /\ Stored(last.o)) =>
                      GrowthRule(get_memory(last.pre), l,
                                 read_memory(mach, l).v, get_memory(mach))

\* an executed Move that wrote beyond the size an earlier write had left:
\* the memory grew to index + 1, the earlier word is in place and the cell
\* between is 0
C31_Witness ==
    /\ last.op = "execute_next"
    /\ last.ins = Move(Literal(2), MemAbs(MaxWords - 1))
    /\ get_memory(last.pre) = << 0, 1 >>
    /\ last.o = Continue
    /\ Len(get_memory(mach)) = MaxWords
    /\ get_memory(mach)[2] = 1
    /\ get_memory(mach)[MaxWords] = 2
    /\ \A k \in 3 .. MaxWords - 1 : get_memory(mach)[k] = 0

(* ===================== the stack after an underflow ==================== *)
\* C32: after a Pop on an empty stack, a Push(v) followed by a Pop(x)
\* returns Continue for both and leaves x = v.
C32_StackUsableAfterUnderflow ==
    \A v \in StackVals :
        (mach.program = UnderflowProgram(v) /\ last.op = "execute_next") =>
            /\ last.pre.ip = 1 => last.o = Continue
            /\ last.pre.ip = 2 =>
                   last.o = Continue /\ read_register(mach, R0) = v

(* ================== literal writes leave the state alone =============== *)
\* C33: an executed Zero(a), Move(_, a), Add(a, _) or Sub(a, _) whose
\* destination a is a Literal returns Fault, and IP, the registers, SP, BP,
\* memory, the input position and the output are exactly as before the step.
C33_LiteralFaultPreservesState ==
    (/\ last.op = "execute_next"
     /\ last.ins.op \in {"Zero", "Move", "Add", "Sub"}
     /\ DestIsLiteral(last.ins)) =>
        /\ last.o = Fault("Tried to write to literal")
        /\ mach = last.pre

(* ============================ the frame of BP ========================== *)
\* instruction i names the register BP as its destination
WritesBP(i) ==
    \/ i.op \in {"Zero", "Input", "Add", "Sub", "Pop"} /\ i.a = RegAbs(BP)
    \/ i.op = "Move" /\ i.b = RegAbs(BP)

\* instructions that name BP, as a source, as a pointer or as a destination
BPInstrs ==
    {[op |-> o, a |-> a, b |-> NoAddr] :
         o \in OneOps, a \in {RegAbs(BP), MemReg(BP)}}
        \cup {[op |-> o, a |-> a, b |-> b] :
                  o \in TwoOps, a \in {RegAbs(BP), MemReg(BP), RegAbs(R0)},
                  b \in {RegAbs(BP), MemReg(BP), Literal(1)}}

\* C34: BP is changed only by an explicit write whose destination is
\* RegAbs(BP).  Every executed instruction that does not name BP as its
\* destination, and every such instruction the machine could be given in its
\* current state (Push, Pop, jumps, NoOp, Output, Halt, and the writers with
\* any other destination, BP being allowed as source or as pointer), leaves
\* BP unchanged, and so do load_program, load_memory and every write_addr to
\* another address; so in a program that never names BP as a destination BP
\* is MAX_WORDS - 1 in every state.
C34_BPFrame ==
    /\ (last.op = "execute_next" /\ ~WritesBP(last.ins)) => mach.bp = last.pre.bp
    /\ last.op = "load_program" => mach.bp = last.pre.bp
    /\ \A i \in SepInstrs \cup BPInstrs :
           ~WritesBP(i) => dispatch(mach, i).m.bp = mach.bp
    /\ \A p \in Reloads : load_program(mach, p).bp = mach.bp
    /\ \A mem \in Memories : load_memory(mach, mem).bp = mach.bp
    /\ \A a \in HostAddrs, v \in HostVals : write_addr(mach, a, v).m.bp = mach.bp
    /\ (\A k \in 1 .. Len(mach.program) : ~WritesBP(mach.program[k])) =>
           mach.bp = (MaxWords - 1) % WordMod

\* a program of Pushes and Pops has pushed, popped and popped once more on
\* the empty stack: SP has moved each time and BP is still MAX_WORDS - 1
C34_Witness ==
    /\ mach.program \in LifoPrograms
    /\ Len(mach.program) >= 4
    /\ last.op = "execute_next"
    /\ last.ins.op = "Pop"
    /\ last.pre.sp >= last.pre.bp
    /\ last.o = Continue
    /\ mach.sp # last.pre.sp
    /\ mach.bp = MaxWords - 1

====
